---- MODULE Spec2Model ----
(***************************************************************************)
(* Schedule merge and row-lifecycle engine of kronos.                      *)
(*                                                                         *)
(* services/schedule_service.py holds the pure list operations             *)
(* (merge_new_schedules, delete_rows_by_id, restore_deleted_rows);         *)
(* routers/schedule.py holds the request handlers that apply them to the   *)
(* session's schedule_data.                                                *)
(*                                                                         *)
(* Spec      : the request handlers on the session of a guest (no          *)
(*             schedule_repo.save), from the empty schedule_data.          *)
(* SpecCalls : the three service functions called directly, in any order,  *)
(*             from the empty collection.                                  *)
(* SpecFn    : the three service functions called directly on an arbitrary *)
(*             collection of stored rows.                                  *)
(***************************************************************************)
EXTENDS Integers, Sequences, FiniteSets, TLC

VARIABLES
    all_rows,         \* schedule_data["all_rows"]: sequence of stored rows
    processed_files,  \* schedule_data["processed_files"]: list of filenames
    nextId,           \* source of uuid4 values: ids below nextId are used up
    last,             \* the latest call: its name, argument and result
    tick,             \* alternates on every call, so a call that changes
                      \* nothing else is still a step
    is_authenticated, \* request.state.is_authenticated and request.state.user
    db_schedule,      \* the owner's UserSchedule rows: <<>> or <<schedule_data>>
    save_failures,    \* commits of ScheduleRepository.save that have failed
    text,             \* zoom_utils: a raw name, a variation of it and
                      \* their strict-canonical keys
    classified,       \* the cached users and meetings, the rows of the
                      \* Excel file and what classify_rows made of them
    batch,            \* process_assignments: its position, its tasks and
                      \* its local variables
    zoom_api,         \* the external system: the host of each meeting and
                      \* the update_meeting_host calls made for each item
    zoom_db,          \* ZoomMeetingCache.host_id and ZoomAssignmentHistory
    cache,            \* the ids of the rows of ZoomUserCache and of
                      \* ZoomMeetingCache, and the commits made on them
    sync,             \* sync_data_from_zoom: its position, what the
                      \* external system holds and what was fetched
    load,             \* load_cache_from_db: its position and the two maps
    cookie,           \* the client's session cookie
    redis,            \* the keys of the session store
    login             \* login_post: the session ids and the outcome

scheduleVars == <<all_rows, processed_files, nextId, last, tick>>
authVars == <<is_authenticated, db_schedule, save_failures>>
textVars == <<text>>
classifyVars == <<classified>>
assignVars == <<batch, zoom_api, zoom_db>>
syncVars == <<cache, sync, load>>
zoomVars == <<textVars, classifyVars, assignVars, syncVars>>
loginVars == <<cookie, redis, login>>

vars == <<scheduleVars, authVars, zoomVars, loginVars>>

----------------------------------------------------------------------------
(* Bounds *)

MaxBatch == 2     \* schedules of one direct call of merge_new_schedules
MaxRows == 1      \* schedules parsed from one uploaded file
MaxFiles == 1     \* files of one upload request
MaxIds == 2       \* uuid4 values drawn from the empty schedule_data
MaxDel == 2       \* ids of one delete request
MaxLen == 2       \* rows of the initial collection of SpecFn
MaxSaveFailures == 1  \* failed commits of ScheduleRepository.save
MaxTextLen == 3   \* characters of a raw name
MaxEdits == 2     \* edits between a raw name and its variation
MaxDfRows == 1    \* rows of the Excel file given to classify_rows
MaxTasks == 3     \* pairs of to_update
MAX_WORKERS == 2  \* size of the semaphore of process_assignments (12 in
                  \* the source; kept under MaxTasks so that tasks wait)

\* fuzzy_find's default threshold
threshold == 85

----------------------------------------------------------------------------
(* Canonical rows *)

BaseRow ==
    [date |-> "01/09/2025", shift |-> "AM", area |-> "HUB",
     start_time |-> "08:00", end_time |-> "09:00", code |-> "1001",
     instructor |-> "Alice", group |-> "G1", minutes |-> "60", units |-> 1]

\* The rows a parsed file can hold: one base row, one that differs from it
\* only in instructor, one that differs from it only in units.
Schedules ==
    {BaseRow,
     [BaseRow EXCEPT !.instructor = "Bob"],
     [BaseRow EXCEPT !.units = 2]}

\* Mutant: units is left out of the key.
_get_business_key_NoUnits(row_data) ==
    <<row_data.date, row_data.shift, row_data.area, row_data.start_time,
      row_data.end_time, row_data.code, row_data.instructor, row_data.group,
      row_data.minutes>>

_get_business_key(row_data) ==
    <<row_data.date, row_data.shift, row_data.area, row_data.start_time,
      row_data.end_time, row_data.code, row_data.instructor, row_data.group,
      row_data.minutes, row_data.units>>

get_empty_schedule_data == [processed_files |-> <<>>, all_rows |-> <<>>]

filter_active_rows(rows) == SelectSeq(rows, LAMBDA row : row.status = "active")

get_deleted_rows_count(rows) == Len(rows) - Len(filter_active_rows(rows))

----------------------------------------------------------------------------
(* merge_new_schedules *)

\* Mutant: the index is not built from the existing rows.
RowsByKey_Empty(rows) == [k \in {} |-> 0]

\* rows_by_key = {_get_business_key(row["data"]): row for row in all_rows}
\* A dict comprehension keeps, for a key that occurs more than once, the
\* row that comes last.  The index holds row positions.
RowsByKey(rows) ==
    LET keys == {_get_business_key(rows[i].data) : i \in DOMAIN rows}
    IN [k \in keys |->
          CHOOSE i \in DOMAIN rows :
              /\ _get_business_key(rows[i].data) = k
              /\ \A j \in DOMAIN rows :
                    _get_business_key(rows[j].data) = k => j <= i]

\* Mutant: a new row is not added to the index.
MergeOne_NoIndex(st, schedule) ==
    LET row_tuple == _get_business_key(schedule)
    IN IF row_tuple \in DOMAIN st.index
       THEN LET p == st.index[row_tuple]
            IN IF st.rows[p].status = "deleted"
               THEN [st EXCEPT !.rows[p].status = "active"]
               ELSE st
       ELSE [st EXCEPT
               !.rows = Append(st.rows,
                   [id |-> st.nid, status |-> "active", data |-> schedule]),
               !.nid = st.nid + 1]

\* Mutant: a matching row that is deleted is left deleted.
MergeOne_NoReactivate(st, schedule) ==
    LET row_tuple == _get_business_key(schedule)
    IN IF row_tuple \in DOMAIN st.index
       THEN st
       ELSE [st EXCEPT
               !.rows = Append(st.rows,
                   [id |-> st.nid, status |-> "active", data |-> schedule]),
               !.index = [k \in DOMAIN st.index \cup {row_tuple} |->
                            IF k = row_tuple THEN Len(st.rows) + 1
                            ELSE st.index[k]],
               !.nid = st.nid + 1]

\* The loop over new_schedules.  st.rows is all_rows followed by
\* new_entries (the rows appended are new_entries), st.index is
\* rows_by_key, st.nid the next uuid4.
MergeOne(st, schedule) ==
    LET row_tuple == _get_business_key(schedule)
    IN IF row_tuple \in DOMAIN st.index
       THEN LET p == st.index[row_tuple]
            IN IF st.rows[p].status = "deleted"
               THEN [st EXCEPT !.rows[p].status = "active"]
               ELSE st
       ELSE [st EXCEPT
               !.rows = Append(st.rows,
                   [id |-> st.nid, status |-> "active", data |-> schedule]),
               !.index = [k \in DOMAIN st.index \cup {row_tuple} |->
                            IF k = row_tuple THEN Len(st.rows) + 1
                            ELSE st.index[k]],
               !.nid = st.nid + 1]

RECURSIVE MergeLoop(_, _)
MergeLoop(st, new_schedules) ==
    IF new_schedules = <<>> THEN st
    ELSE MergeLoop(MergeOne(st, Head(new_schedules)), Tail(new_schedules))

\* Returns the new all_rows and the next unused id.
merge_new_schedules(current_rows, new_schedules, nid) ==
    LET st == MergeLoop([rows |-> current_rows,
                         index |-> RowsByKey(current_rows),
                         nid |-> nid], new_schedules)
    IN [rows |-> st.rows, nid |-> st.nid]

----------------------------------------------------------------------------
(* delete_rows_by_id *)

\* Mutant: the status of a row is not looked at.
delete_rows_by_id_AnyStatus(current_rows, ids_to_delete) ==
    LET hit(row) == row.id \in ids_to_delete
    IN [rows |-> [i \in DOMAIN current_rows |->
                    IF hit(current_rows[i])
                    THEN [current_rows[i] EXCEPT !.status = "deleted"]
                    ELSE current_rows[i]],
        count |-> Cardinality({i \in DOMAIN current_rows :
                                  hit(current_rows[i])})]

\* Mutant: the rows are taken out of the list.
delete_rows_by_id_Remove(current_rows, ids_to_delete) ==
    LET hit(row) == row.id \in ids_to_delete /\ row.status = "active"
    IN [rows |-> SelectSeq(current_rows, LAMBDA row : ~ hit(row)),
        count |-> Cardinality({i \in DOMAIN current_rows :
                                  hit(current_rows[i])})]

delete_rows_by_id(current_rows, ids_to_delete) ==
    LET hit(row) == row.id \in ids_to_delete /\ row.status = "active"
    IN [rows |-> [i \in DOMAIN current_rows |->
                    IF hit(current_rows[i])
                    THEN [current_rows[i] EXCEPT !.status = "deleted"]
                    ELSE current_rows[i]],
        count |-> Cardinality({i \in DOMAIN current_rows :
                                  hit(current_rows[i])})]

----------------------------------------------------------------------------
(* restore_deleted_rows *)

\* Mutant: a restored key is not added to active_rows_set.
RestoreOne_NoAdd(st, i) ==
    LET row == st.rows[i]
        row_tuple == _get_business_key(row.data)
    IN IF row.status = "deleted" /\ row_tuple \notin st.active_rows_set
       THEN [rows |-> [st.rows EXCEPT ![i].status = "active"],
             active_rows_set |-> st.active_rows_set,
             count |-> st.count + 1]
       ELSE st

\* Mutant: a row that cannot be restored is counted all the same.
RestoreOne_CountAll(st, i) ==
    LET row == st.rows[i]
        row_tuple == _get_business_key(row.data)
    IN IF row.status = "deleted"
       THEN IF row_tuple \notin st.active_rows_set
            THEN [rows |-> [st.rows EXCEPT ![i].status = "active"],
                  active_rows_set |-> st.active_rows_set \cup {row_tuple},
                  count |-> st.count + 1]
            ELSE [st EXCEPT !.count = @ + 1]
       ELSE st

RestoreOne(st, i) ==
    LET row == st.rows[i]
        row_tuple == _get_business_key(row.data)
    IN IF row.status = "deleted" /\ row_tuple \notin st.active_rows_set
       THEN [rows |-> [st.rows EXCEPT ![i].status = "active"],
             active_rows_set |-> st.active_rows_set \cup {row_tuple},
             count |-> st.count + 1]
       ELSE st

RECURSIVE RestoreLoop(_, _)
RestoreLoop(st, i) ==
    IF i > Len(st.rows) THEN st
    ELSE RestoreLoop(RestoreOne(st, i), i + 1)

\* Mutant: active_rows_set starts with the keys of all rows.
restore_deleted_rows_AllKeys(current_rows) ==
    LET st == RestoreLoop(
                 [rows |-> current_rows,
                  active_rows_set |->
                      {_get_business_key(current_rows[i].data) :
                          i \in DOMAIN current_rows},
                  count |-> 0], 1)
    IN [rows |-> st.rows, count |-> st.count]

restore_deleted_rows(current_rows) ==
    LET st == RestoreLoop(
                 [rows |-> current_rows,
                  active_rows_set |->
                      {_get_business_key(current_rows[i].data) :
                          i \in {j \in DOMAIN current_rows :
                                    current_rows[j].status = "active"}},
                  count |-> 0], 1)
    IN [rows |-> st.rows, count |-> st.count]

----------------------------------------------------------------------------
(* Inputs *)

Filenames == {"a.xlsx", "b.xlsx"}

RECURSIVE SeqsUpTo(_, _)
SeqsUpTo(S, n) ==
    IF n = 0 THEN {<<>>}
    ELSE LET shorter == SeqsUpTo(S, n - 1)
         IN shorter \cup {Append(q, x) : q \in shorter, x \in S}

\* The new_schedules of a direct call of merge_new_schedules.
Batches == SeqsUpTo(Schedules, MaxBatch)

\* What process_single_file can return for a file: a list of schedules.
Parsed == SeqsUpTo(Schedules, MaxRows)

\* An uploaded file: its name and what reading it leads to.  "rejected": too
\* large or refused by validate_file; "parse_error": process_single_file
\* raises; "ok": process_single_file returns schedules.
Files ==
    [filename : Filenames, outcome : {"ok"}, schedules : Parsed]
    \cup [filename : Filenames, outcome : {"rejected", "parse_error"},
          schedules : {<<>>}]

Requests == SeqsUpTo(Files, MaxFiles) \ {<<>>}

\* The id sets of a delete request over the ids S.
IdSets(S) == {ids \in SUBSET S : Cardinality(ids) <= MaxDel}

\* list(a_set): the order of the elements is whatever the set's hashing gives.
ListsOf(S) ==
    {q \in SeqsUpTo(S, Cardinality(S)) :
        Len(q) = Cardinality(S) /\ {q[i] : i \in DOMAIN q} = S}

SetOf(q) == {q[i] : i \in DOMAIN q}

\* What a file holds, whatever its name.
Content(files) ==
    [i \in DOMAIN files |->
        [outcome |-> files[i].outcome, schedules |-> files[i].schedules]]

\* The record of a call.  files, ids: its argument; count: the rows it
\* created, deleted or restored; newly: newly_processed_files; status: the
\* HTTP status of a handler's response (0 for a direct call); after: what
\* the call came after, "same" for a call of the same name and argument
\* (file names apart), "delete" for a delete that deleted rows; save: what
\* became of the handler's schedule_repo.save ("none": not called).
NoCall == [op |-> "none", files |-> <<>>, ids |-> {}, count |-> 0,
           newly |-> <<>>, status |-> 0, after |-> "other", save |-> "none"]

Call(op, files, ids, count, status) ==
    [NoCall EXCEPT !.op = op, !.files = files, !.ids = ids, !.count = count,
                   !.status = status,
                   !.after = IF /\ last.op = op
                                /\ Content(last.files) = Content(files)
                                /\ last.ids = ids
                             THEN "same"
                             ELSE IF last.op = "delete" /\ last.count >= 1
                                  THEN "delete"
                                  ELSE "other"]

----------------------------------------------------------------------------
(* repositories/schedule_repository.py *)

\* How a handler's "if request.state.is_authenticated and request.state.user:
\* await schedule_repo.save(...)" can end: not called for a guest; db.commit
\* returns ("saved") or raises ("failed").
SaveOutcomes ==
    IF ~is_authenticated THEN {"none"}
    ELSE IF save_failures < MaxSaveFailures THEN {"saved", "failed"}
    ELSE {"saved"}

\* ScheduleRepository.save: db.merge replaces the owner's row by
\* schedule_data and db.commit makes it durable; when the commit raises,
\* db.rollback leaves the stored row as it was.
save(schedule_data, outcome) ==
    /\ db_schedule' = IF outcome = "saved" THEN <<schedule_data>>
                      ELSE db_schedule
    /\ save_failures' = IF outcome = "failed" THEN save_failures + 1
                        ELSE save_failures
    /\ UNCHANGED is_authenticated

----------------------------------------------------------------------------
(* routers/schedule.py *)

\* One pass of the loop "for file in files" of generate_schedule.
UploadOne(st, file) ==
    IF file.filename \in st.processed_files_set THEN st
    ELSE IF file.outcome = "rejected"
         THEN [st EXCEPT !.upload_errors = @ + 1]
    ELSE IF file.outcome = "parse_error"
         THEN [st EXCEPT !.upload_errors = @ + 1]
    ELSE LET m == merge_new_schedules(st.all_rows, file.schedules, st.nid)
         IN [st EXCEPT !.all_rows = m.rows, !.nid = m.nid,
                       !.newly_processed_files = Append(@, file.filename)]

RECURSIVE UploadLoop(_, _)
UploadLoop(st, files) ==
    IF files = <<>> THEN st
    ELSE UploadLoop(UploadOne(st, Head(files)), Tail(files))

\* POST /generate-schedule
generate_schedule(files) ==
    LET st == UploadLoop([all_rows |-> all_rows,
                          processed_files_set |-> SetOf(processed_files),
                          newly_processed_files |-> <<>>,
                          upload_errors |-> 0,
                          nid |-> nextId], files)
    IN /\ st.nid <= MaxIds + 1
       /\ all_rows' = st.all_rows
       /\ processed_files' \in
             ListsOf(st.processed_files_set \cup SetOf(st.newly_processed_files))
       /\ nextId' = st.nid
       /\ \E outcome \in SaveOutcomes :
             /\ save([all_rows |-> all_rows',
                      processed_files |-> processed_files'], outcome)
             /\ last' = [Call("upload", files, {},
                              Len(st.all_rows) - Len(all_rows), 303)
                         EXCEPT !.newly = st.newly_processed_files,
                                !.save = outcome]
       /\ tick' = 1 - tick

\* GET /upload-new
show_upload_form ==
    /\ processed_files' = <<>>
    /\ last' = Call("upload_new", <<>>, {}, 0, 200)
    /\ tick' = 1 - tick
    /\ UNCHANGED <<all_rows, nextId, authVars>>

\* POST /delete-rows; ids_to_delete is what validate_uuid_list returns.
delete_selected_rows(ids_to_delete) ==
    IF ids_to_delete = {}
    THEN /\ last' = Call("delete", <<>>, {}, 0, 400)
         /\ tick' = 1 - tick
         /\ UNCHANGED <<all_rows, processed_files, nextId, authVars>>
    ELSE LET r == delete_rows_by_id(all_rows, ids_to_delete)
         IN /\ all_rows' = r.rows
            /\ processed_files' =
                  IF filter_active_rows(r.rows) = <<>> THEN <<>>
                  ELSE processed_files
            /\ \E outcome \in SaveOutcomes :
                  /\ save([all_rows |-> all_rows',
                           processed_files |-> processed_files'], outcome)
                  /\ last' = [Call("delete", <<>>, ids_to_delete, r.count,
                                   IF outcome = "failed" THEN 500 ELSE 200)
                              EXCEPT !.save = outcome]
            /\ tick' = 1 - tick
            /\ UNCHANGED nextId

\* POST /restore-rows
restore_rows ==
    IF all_rows = <<>>
    THEN /\ last' = Call("restore", <<>>, {}, 0, 200)
         /\ tick' = 1 - tick
         /\ UNCHANGED <<all_rows, processed_files, nextId, authVars>>
    ELSE LET r == restore_deleted_rows(all_rows)
         IN /\ all_rows' = r.rows
            /\ \E outcome \in SaveOutcomes :
                  /\ save([all_rows |-> all_rows',
                           processed_files |-> processed_files], outcome)
                  /\ last' = [Call("restore", <<>>, {}, r.count,
                                   IF outcome = "failed" THEN 500 ELSE 200)
                              EXCEPT !.save = outcome]
            /\ tick' = 1 - tick
            /\ UNCHANGED <<processed_files, nextId>>

\* POST /delete-data
delete_data ==
    /\ all_rows' = get_empty_schedule_data.all_rows
    /\ processed_files' = get_empty_schedule_data.processed_files
    /\ \E outcome \in SaveOutcomes :
          /\ save(get_empty_schedule_data, outcome)
          /\ last' = [Call("clear", <<>>, {}, 0,
                           IF outcome = "failed" THEN 500 ELSE 200)
                      EXCEPT !.save = outcome]
    /\ tick' = 1 - tick
    /\ UNCHANGED nextId

GenerateSchedule ==
    /\ \E files \in Requests : generate_schedule(files)
    /\ UNCHANGED <<zoomVars, loginVars>>
ShowUploadForm == show_upload_form /\ UNCHANGED <<zoomVars, loginVars>>
DeleteSelectedRows ==
    /\ \E ids \in IdSets(1..(nextId - 1)) : delete_selected_rows(ids)
    /\ UNCHANGED <<zoomVars, loginVars>>
RestoreRows == restore_rows /\ UNCHANGED <<zoomVars, loginVars>>
DeleteData == delete_data /\ UNCHANGED <<zoomVars, loginVars>>

\* The session of a guest: the middleware's initial session_data.
Guest ==
    /\ is_authenticated = FALSE
    /\ db_schedule = <<>>
    /\ save_failures = 0

\* zoom_utils not called: no name, no key computed.
Unset == <<"unset">>

NoText == [raw |-> <<>>, other |-> <<>>, edits |-> 0, op |-> "none",
           key |-> Unset, key_other |-> Unset, key_again |-> Unset]

\* classify_rows not called: nothing cached, no rows.
NoClassified ==
    [users |-> {}, meetings |-> {}, df |-> <<>>, op |-> "none",
     to_update |-> <<>>, ok |-> <<>>, not_found |-> <<>>, sides |-> <<>>,
     call |-> <<>>]

\* The cached meetings, all hosted by u0, and the pairs (meeting,
\* instructor) that classify_rows can put in to_update: the instructor is
\* not the host, and one meeting can come with two instructors.
MeetingIds == {"m1", "m2"}
Pairs ==
    {[meeting |-> [id |-> p[1], host_id |-> "u0"],
      instructor |-> [id |-> p[2]]] :
        p \in {<<"m1", "u1">>, <<"m1", "u2">>, <<"m2", "u2">>}}

\* process_assignments not called.
NoBatch ==
    [pc |-> "idle", to_update |-> <<>>, token |-> "none",
     task |-> <<>>, result |-> <<>>, sem |-> 0,
     success_count |-> 0, error_count |-> 0,
     history_logs |-> <<>>, cache_updates |-> <<>>,
     commit |-> "none", final_stats |-> <<>>]

\* Nothing called on the external system for to_update.
ApiBefore(to_update) ==
    [host |-> [m \in MeetingIds |-> "u0"],
     calls |-> [i \in DOMAIN to_update |-> 0],
     answer |-> [i \in DOMAIN to_update |-> "none"]]

\* The cache rows of the meetings and the history, which holds the entry
\* of an earlier batch.
DbBefore ==
    [host_id |-> [m \in MeetingIds |-> "u0"],
     history |-> <<[meeting_id |-> "m2", previous_host_id |-> "u1",
                    new_host_id |-> "u0", status |-> "SUCCESS"]>>]

AssignIdle ==
    /\ batch = NoBatch
    /\ zoom_api = ApiBefore(<<>>)
    /\ zoom_db = DbBefore

\* The users and the meetings of the external system; u1 has two pages of
\* meetings, u2 one.
ZoomUserIds == {"u1", "u2"}
Pages(uid) == IF uid = "u1" THEN <<{"m1"}, {"m3"}>> ELSE <<{"m2"}>>
AllMeetingIds ==
    UNION {UNION {Pages(uid)[k] : k \in DOMAIN Pages(uid)} :
              uid \in ZoomUserIds}

\* The cache tables holding the rows of these ids, no commit made on them
\* yet; log lists the committed states, the latest last.
CacheOf(users, meetings) ==
    [users |-> users, meetings |-> meetings, commits |-> 0,
     log |-> <<[users |-> users, meetings |-> meetings]>>]

\* sync_data_from_zoom not called.
NoSync ==
    [pc |-> "idle", zoom_users |-> {}, zoom_meetings |-> {}, fetch |-> <<>>,
     fresh_user_ids |-> {}, fresh_meeting_ids |-> {},
     before |-> [users |-> {}, meetings |-> {}]]

\* load_cache_from_db not called.
NoLoad ==
    [pc |-> "idle", users |-> {}, meetings |-> {},
     commits_at_users |-> 0, commits_at_meetings |-> 0]

SyncIdle ==
    /\ cache = CacheOf({}, {})
    /\ sync = NoSync
    /\ load = NoLoad

\* login_post not called.
NoLogin ==
    [status |-> "none", old_session_id |-> "none", new_session_id |-> "none",
     guest_schedule |-> <<>>, stored_schedule |-> <<>>]

LoginIdle ==
    /\ cookie = "none"
    /\ redis = {}
    /\ login = NoLogin

ZoomIdle ==
    text = NoText /\ classified = NoClassified /\ AssignIdle /\ SyncIdle

Init ==
    /\ all_rows = get_empty_schedule_data.all_rows
    /\ processed_files = get_empty_schedule_data.processed_files
    /\ nextId = 1
    /\ last = NoCall
    /\ tick = 0
    /\ Guest
    /\ ZoomIdle
    /\ LoginIdle

Next ==
    \/ GenerateSchedule
    \/ ShowUploadForm
    \/ DeleteSelectedRows
    \/ RestoreRows
    \/ DeleteData

Spec == Init /\ [][Next]_vars

\* The session of an owner who has just logged in with no guest data and
\* no stored schedule (handle_login, case 2, "usuario nuevo").
InitAuth ==
    /\ all_rows = get_empty_schedule_data.all_rows
    /\ processed_files = get_empty_schedule_data.processed_files
    /\ nextId = 1
    /\ last = NoCall
    /\ tick = 0
    /\ is_authenticated = TRUE
    /\ db_schedule = <<>>
    /\ save_failures = 0
    /\ ZoomIdle
    /\ LoginIdle

SpecAuth == InitAuth /\ [][Next]_vars

----------------------------------------------------------------------------
(* session_middleware.py, routers/auth.py, services/auth_service.py *)

\* The values uuid.uuid4() can give for a session id.
SessionIds == {"s1", "s2", "s3"}

\* str(uuid.uuid4()): an id that is not one of used.
uuid4(used) == CHOOSE s \in SessionIds : s \notin used

\* A schedule the owner saved in an earlier authenticated session; its row
\* has an id no later uuid4 gives.
StoredSchedule ==
    [processed_files |-> <<"b.xlsx">>,
     all_rows |-> <<[id |-> 0, status |-> "active", data |-> BaseRow]>>]

\* ScheduleRepository.get_by_user_id: the stored schedule_data or None.
get_by_user_id == IF db_schedule = <<>> THEN <<>> ELSE <<db_schedule[1]>>

\* request.state.session.clear(): the dict has no key left, so
\* session.get("schedule_data", get_empty_schedule_data()) gives the
\* default.
Cleared == get_empty_schedule_data

\* AuthService.handle_login given the schedule_data it reads from
\* request.state.session: the schedule of the new session and the stored
\* rows after it.
handle_login(guest_schedule_data) ==
    LET has_guest_data == guest_schedule_data.all_rows # <<>>
        existing_schedule == get_by_user_id
    IN IF has_guest_data
       THEN [schedule_for_new_session |-> guest_schedule_data,
             db |-> <<guest_schedule_data>>]
       ELSE IF existing_schedule # <<>>
            THEN [schedule_for_new_session |-> existing_schedule[1],
                  db |-> db_schedule]
            ELSE [schedule_for_new_session |-> get_empty_schedule_data,
                  db |-> db_schedule]

\* POST /login through RedisSessionMiddleware.dispatch. The middleware
\* takes session_id from the cookie, or a new one when the cookie names no
\* stored session; login_post authenticates (user_found) and on success
\* assigns request.state.session_id, clears the session and calls
\* handle_login; after call_next the middleware stores the session under
\* its own session_id and sets the cookie only for a new session. The
\* deletion of request.state.old_session_id is before call_next, where the
\* attribute is not set yet.
login_post(user_found) ==
    LET new_session == cookie \notin redis
        session_id == IF new_session THEN uuid4(redis \cup {cookie})
                      ELSE cookie
        before_call_next == redis
        old_session_id == session_id
        new_session_id == uuid4(redis \cup {cookie, session_id})
        guest == [all_rows |-> all_rows, processed_files |-> processed_files]
        h == handle_login(Cleared)
    IN /\ redis' = before_call_next \cup {session_id}
       /\ cookie' = IF new_session THEN session_id ELSE cookie
       /\ IF user_found
          THEN /\ all_rows' = h.schedule_for_new_session.all_rows
               /\ processed_files' =
                      h.schedule_for_new_session.processed_files
               /\ db_schedule' = h.db
               /\ is_authenticated' = TRUE
               /\ login' = [status |-> "ok",
                            old_session_id |-> old_session_id,
                            new_session_id |-> new_session_id,
                            guest_schedule |-> <<guest>>,
                            stored_schedule |-> get_by_user_id]
          ELSE /\ login' = [NoLogin EXCEPT !.status = "auth_failed"]
               /\ UNCHANGED <<all_rows, processed_files, db_schedule,
                              is_authenticated>>
       /\ UNCHANGED <<nextId, last, tick, save_failures, zoomVars>>

LoginPost == \E user_found \in BOOLEAN : login_post(user_found)

\* A visitor who is not logged in: with the cookie of a stored guest
\* session or with no cookie at all, and an owner account with or without
\* a stored schedule.
InitLogin ==
    /\ all_rows = get_empty_schedule_data.all_rows
    /\ processed_files = get_empty_schedule_data.processed_files
    /\ nextId = 1
    /\ last = NoCall
    /\ tick = 0
    /\ is_authenticated = FALSE
    /\ db_schedule \in {<<>>, <<StoredSchedule>>}
    /\ save_failures = 0
    /\ ZoomIdle
    /\ \/ cookie = "s1" /\ redis = {"s1"}
       \/ cookie = "none" /\ redis = {}
    /\ login = NoLogin

\* Requests of the guest session, then one POST /login.
GuestRequest == login.status = "none" /\ cookie \in redis /\ Next
LoginRequest == login.status = "none" /\ LoginPost

NextLogin == GuestRequest \/ LoginRequest

SpecLogin == InitLogin /\ [][NextLogin]_vars

----------------------------------------------------------------------------
(* schedule_service.py called directly *)

\* all_rows = merge_new_schedules(all_rows, new_schedules)
CallMerge ==
    \E new_schedules \in Batches :
        LET m == merge_new_schedules(all_rows, new_schedules, nextId)
        IN /\ all_rows' = m.rows
           /\ nextId' = m.nid
           /\ last' = Call("merge",
                          <<[filename |-> "", outcome |-> "ok",
                             schedules |-> new_schedules]>>,
                          {}, Len(m.rows) - Len(all_rows), 0)
           /\ tick' = 1 - tick
           /\ UNCHANGED <<processed_files, authVars, zoomVars, loginVars>>

\* all_rows, deleted_count = delete_rows_by_id(all_rows, ids_to_delete)
CallDelete ==
    \E ids_to_delete \in IdSets(1..(nextId - 1)) :
        LET r == delete_rows_by_id(all_rows, ids_to_delete)
        IN /\ all_rows' = r.rows
           /\ last' = Call("delete", <<>>, ids_to_delete, r.count, 0)
           /\ tick' = 1 - tick
           /\ UNCHANGED <<processed_files, nextId, authVars, zoomVars,
                          loginVars>>

\* all_rows, restored_count = restore_deleted_rows(all_rows)
CallRestore ==
    LET r == restore_deleted_rows(all_rows)
    IN /\ all_rows' = r.rows
       /\ last' = Call("restore", <<>>, {}, r.count, 0)
       /\ tick' = 1 - tick
       /\ UNCHANGED <<processed_files, nextId, authVars, zoomVars, loginVars>>

NextFn == CallMerge \/ CallDelete \/ CallRestore

SpecCalls == Init /\ [][NextFn]_vars

\* Any collection of stored rows with distinct ids: the keys and the
\* statuses are free, so rows may repeat a key.
InitFn ==
    /\ all_rows \in UNION {{[i \in 1..n |->
                               [id |-> i, status |-> c[i].status,
                                data |-> c[i].data]] :
                             c \in [1..n -> [status : {"active", "deleted"},
                                             data : Schedules]]} :
                           n \in 0..MaxLen}
    /\ processed_files = <<>>
    /\ nextId = Len(all_rows) + 1
    /\ last = NoCall
    /\ tick = 0
    /\ Guest
    /\ ZoomIdle
    /\ LoginIdle

\* Every call of SpecFn takes a collection of at most MaxLen rows.
FnMerge == Len(all_rows) <= MaxLen /\ CallMerge
FnDelete == Len(all_rows) <= MaxLen /\ CallDelete
FnRestore == Len(all_rows) <= MaxLen /\ CallRestore

NextFnBounded == FnMerge \/ FnDelete \/ FnRestore

SpecFn == InitFn /\ [][NextFnBounded]_vars

----------------------------------------------------------------------------
(* services/zoom_utils.py: strict normalization *)

\* A string is a sequence of characters.  The characters of the raw names:
\* three letters, an upper-case letter, a precomposed accented letter, a
\* space and a punctuation mark.  NFKD adds the combining accent.
Letters == {"p", "e", "r"}
Chars == Letters \cup {"P", "e_acute", " ", "-"}

RawNames == SeqsUpTo(Chars, MaxTextLen)

\* str.lower and str.casefold on these characters.
Lower(c) == IF c = "P" THEN "p" ELSE c

\* \w of re: letters (accented ones too), digits and the underscore.
IsWord(c) == c \in Letters \cup {"P", "e_acute"}

\* unicodedata.normalize("NFKD", c)
NFKD(c) ==
    IF c = "e_acute" THEN <<"e", "combining_acute">> ELSE <<c>>

\* unicodedata.combining(c) # 0
combining(c) == c = "combining_acute"

RECURSIVE MapSeq(_, _)
MapSeq(Op(_), s) ==
    IF s = <<>> THEN <<>> ELSE <<Op(Head(s))>> \o MapSeq(Op, Tail(s))

RECURSIVE Flatten(_)
Flatten(ss) == IF ss = <<>> THEN <<>> ELSE Head(ss) \o Flatten(Tail(ss))

\* re.findall(r"\w+", s): the maximal runs of word characters, in order.
RECURSIVE Tokens(_, _)
Tokens(s, run) ==
    IF s = <<>> THEN (IF run = <<>> THEN <<>> ELSE <<run>>)
    ELSE IF IsWord(Head(s)) THEN Tokens(Tail(s), Append(run, Head(s)))
    ELSE (IF run = <<>> THEN <<>> ELSE <<run>>) \o Tokens(Tail(s), <<>>)

\* " ".join(tokens)
RECURSIVE Join(_)
Join(tokens) ==
    IF tokens = <<>> THEN <<>>
    ELSE IF Len(tokens) = 1 THEN Head(tokens)
    ELSE Head(tokens) \o <<" ">> \o Join(Tail(tokens))

\* The tokens IRRELEVANT_WORDS.search matches.  A token holds word
\* characters only, so \b...\b matches nothing but the whole token; of the
\* pattern's alternatives these are the ones of the "Location / country"
\* group, the only group with a word the characters above can spell.
IRRELEVANT_WORDS ==
    {<<"p", "e", "r">>, <<"v", "e", "n">>, <<"a", "r", "g">>,
     <<"u", "r", "u">>}

remove_irrelevant(s) ==
    Join(SelectSeq(Tokens(MapSeq(Lower, s), <<>>),
                   LAMBDA t : t \notin IRRELEVANT_WORDS))

canonical(raw) ==
    LET s1 == remove_irrelevant(raw)
        s2 == Flatten(MapSeq(NFKD, s1))
        s3 == SelectSeq(s2, LAMBDA c : ~combining(c))
        s4 == SelectSeq(s3, IsWord)
    IN MapSeq(Lower, s4)

\* The strings that differ from s by one character put in at position i,
\* or by one such character taken out.
InsertAt(s, i, x) == SubSeq(s, 1, i) \o x \o SubSeq(s, i + 1, Len(s))
RemoveAt(s, i, n) == SubSeq(s, 1, i - 1) \o SubSeq(s, i + n, Len(s))

PutOrTake(s, c) ==
    {InsertAt(s, i, <<c>>) : i \in 0..Len(s)}
    \cup {RemoveAt(s, i, 1) : i \in {j \in DOMAIN s : s[j] = c}}

Swap(s, a, b) ==
    {[s EXCEPT ![i] = b] : i \in {j \in DOMAIN s : s[j] = a}}
    \cup {[s EXCEPT ![i] = a] : i \in {j \in DOMAIN s : s[j] = b}}

\* One more or one less stopword, as a word of its own at either end.
StopwordEdits(s) ==
    LET w == <<"p", "e", "r">>
    IN {w \o <<" ">> \o s, s \o <<" ">> \o w}
       \cup (IF Len(s) > 4 /\ SubSeq(s, 1, 4) = w \o <<" ">>
             THEN {SubSeq(s, 5, Len(s))} ELSE {})
       \cup (IF Len(s) > 4 /\ SubSeq(s, Len(s) - 3, Len(s)) = <<" ">> \o w
             THEN {SubSeq(s, 1, Len(s) - 4)} ELSE {})

Vary(kind, others) ==
    /\ text.edits < MaxEdits
    /\ \E o \in others :
          text' = [NoText EXCEPT !.raw = text.raw, !.other = o,
                                 !.edits = text.edits + 1, !.op = kind]
    /\ UNCHANGED <<scheduleVars, authVars, classifyVars, assignVars, syncVars,
                 loginVars>>

VaryWhitespace == Vary("whitespace", PutOrTake(text.other, " "))
VaryPunctuation == Vary("punctuation", PutOrTake(text.other, "-"))
VaryAccents == Vary("accents", Swap(text.other, "e", "e_acute"))
VaryCase == Vary("case", Swap(text.other, "p", "P"))
VaryStopwords == Vary("stopwords", StopwordEdits(text.other))

\* key = canonical(raw) for the raw name and for its variation.
TextCanonical ==
    /\ text.key = Unset
    /\ text' = [text EXCEPT !.op = "canonical",
                            !.key = canonical(text.raw),
                            !.key_other = canonical(text.other)]
    /\ UNCHANGED <<scheduleVars, authVars, classifyVars, assignVars, syncVars,
                 loginVars>>

\* canonical applied to a key.
TextCanonicalAgain ==
    /\ text.key # Unset
    /\ text.key_again = Unset
    /\ text' = [text EXCEPT !.op = "canonical_again",
                            !.key_again = canonical(text.key)]
    /\ UNCHANGED <<scheduleVars, authVars, classifyVars, assignVars, syncVars,
                 loginVars>>

ScheduleIdle ==
    /\ all_rows = get_empty_schedule_data.all_rows
    /\ processed_files = get_empty_schedule_data.processed_files
    /\ nextId = 1
    /\ last = NoCall
    /\ tick = 0
    /\ Guest
    /\ LoginIdle

InitText ==
    /\ ScheduleIdle
    /\ \E raw \in RawNames : text = [NoText EXCEPT !.raw = raw, !.other = raw]
    /\ classified = NoClassified
    /\ AssignIdle
    /\ SyncIdle

NextText ==
    \/ VaryWhitespace
    \/ VaryPunctuation
    \/ VaryAccents
    \/ VaryCase
    \/ VaryStopwords
    \/ TextCanonical
    \/ TextCanonicalAgain

SpecText == InitText /\ [][NextText]_vars

----------------------------------------------------------------------------
(* services/zoom_utils.py: fuzzy matching *)

\* str.split on whitespace: the words of s.
RECURSIVE Words(_, _)
Words(s, run) ==
    IF s = <<>> THEN (IF run = <<>> THEN <<>> ELSE <<run>>)
    ELSE IF Head(s) # " " THEN Words(Tail(s), Append(run, Head(s)))
    ELSE (IF run = <<>> THEN <<>> ELSE <<run>>) \o Words(Tail(s), <<>>)

\* On the characters above: strip().casefold(), the dashes turned into
\* spaces, every other character that is neither \w nor \s turned into a
\* space, runs of spaces collapsed and the ends stripped.  (The quote and
\* digit substitutions have nothing to act on.)
normalizar_cadena(raw) ==
    LET s1 == remove_irrelevant(raw)
        s2 == Flatten(MapSeq(NFKD, s1))
        s3 == SelectSeq(s2, LAMBDA c : ~combining(c))
        s4 == MapSeq(Lower, s3)
        s5 == MapSeq(LAMBDA c : IF IsWord(c) THEN c ELSE " ", s4)
    IN Join(Words(s5, <<>>))

\* The scores the scorer can give a pair of strings: one point under the
\* threshold, the threshold, and a full match.
ScoreValues == {threshold - 1, threshold, 100}

\* extractOne without its cutoff.
extractOne_NoCutoff(query, keys, sc, score_cutoff) ==
    LET best == {k \in keys : \A j \in keys : sc[j] <= sc[k]}
    IN IF best = {} THEN {<<>>} ELSE {<<k>> : k \in best}

\* process.extractOne(query, keys, scorer, score_cutoff): a key of maximal
\* score, when that score reaches the cutoff; <<>> stands for None.  The
\* scorer is the function sc from keys to scores; among keys of equal
\* score the list order decides, which is the order of the database rows.
extractOne(query, keys, sc, score_cutoff) ==
    LET best == {k \in keys : /\ sc[k] >= score_cutoff
                              /\ \A j \in keys : sc[j] <= sc[k]}
    IN IF best = {} THEN {<<>>} ELSE {<<k>> : k \in best}

\* fuzzy_find(raw, choices) under the scorer sc: what the call can return
\* (<<>> for None, <<value>> otherwise), with what it scored.
fuzzy_find(raw, choices, sc) ==
    IF raw = <<>> \/ DOMAIN choices = {}
    THEN {[raw |-> raw, scored |-> FALSE, scores |-> <<>>, value |-> <<>>]}
    ELSE LET normalized_query == normalizar_cadena(raw)
         IN {[raw |-> raw, scored |-> TRUE, scores |-> sc,
              value |-> IF result = <<>> THEN <<>>
                        ELSE <<choices[result[1]]>>] :
               result \in extractOne(normalized_query, DOMAIN choices, sc,
                                     threshold)}

\* The scorers over the keys of choices.
Scorers(choices) == [DOMAIN choices -> ScoreValues]

----------------------------------------------------------------------------
(* services/zoom_assignment_service.py: classify_rows *)

\* The cached users and meetings: ZoomUserCache and ZoomMeetingCache rows,
\* key_canonical as zoom_sync_service stores it.
ZoomUsers ==
    {[id |-> "u1", display_name |-> <<"p">>,
      key_canonical |-> canonical(<<"p">>)],
     [id |-> "u2", display_name |-> <<"e">>,
      key_canonical |-> canonical(<<"e">>)]}

ZoomMeetings ==
    {[id |-> "m1", topic |-> <<"p">>, host_id |-> h,
      key_canonical |-> canonical(<<"p">>)] : h \in {"u1", "u2"}}
    \cup {[id |-> "m2", topic |-> <<"e">>, host_id |-> "u2",
           key_canonical |-> canonical(<<"e">>)]}

\* The sets of cache rows with distinct ids.
Caches(S) ==
    {c \in SUBSET S : \A x, y \in c : x.id = y.id => x = y}

\* The names of the Group and Instructor columns: empty, one that spells a
\* cached key in another case, and one that no key spells.
RowNames == {<<>>, <<"P">>, <<"r">>}

DataFrames == SeqsUpTo([Group : RowNames, Instructor : RowNames], MaxDfRows)

\* load_cache_from_db: the dict keyed by key_canonical and the dict keyed
\* by the normalized name.
ByCanonical(rows) ==
    [k \in {x.key_canonical : x \in rows} |->
        CHOOSE x \in rows : x.key_canonical = k]

users_norm(rows) ==
    [k \in {normalizar_cadena(x.display_name) : x \in rows} |->
        CHOOSE x \in rows : normalizar_cadena(x.display_name) = k]

meetings_norm(rows) ==
    [k \in {normalizar_cadena(x.topic) : x \in rows} |->
        CHOOSE x \in rows : normalizar_cadena(x.topic) = k]

\* fuzzy_find before the exact lookup.
Resolve_FuzzyFirst(raw, exact, norm) ==
    LET key == canonical(raw)
        fuzzy == UNION {fuzzy_find(raw, norm, sc) : sc \in Scorers(norm)}
    IN UNION {IF r.value # <<>>
              THEN {[key |-> key, consulted |-> TRUE, found |-> r.value]}
              ELSE {[key |-> key, consulted |-> TRUE,
                     found |-> IF key \in DOMAIN exact THEN <<exact[key]>>
                               ELSE <<>>]} : r \in fuzzy}

\* One side of a row: "x = cache.get(key); if not x: x = fuzzy_find(raw,
\* norm)".  found is <<>> for None; consulted tells whether fuzzy_find was
\* called.
Resolve(raw, exact, norm) ==
    LET key == canonical(raw)
    IN IF key \in DOMAIN exact
       THEN {[key |-> key, consulted |-> FALSE, found |-> <<exact[key]>>]}
       ELSE {[key |-> key, consulted |-> TRUE, found |-> r.value] :
               r \in UNION {fuzzy_find(raw, norm, sc) : sc \in Scorers(norm)}}

\* The instructor's reason first.
ClassifyOne_InstructorFirst(acc, row, m, i) ==
    LET sides == Append(acc.sides, [meeting |-> m, instructor |-> i])
    IN IF m.found = <<>> \/ i.found = <<>>
       THEN [acc EXCEPT !.sides = sides,
                 !.not_found = Append(@, <<row.Group, row.Instructor,
                     IF i.found = <<>> THEN "Instructor not found"
                     ELSE "Meeting not found">>)]
       ELSE IF m.found[1].host_id = i.found[1].id
       THEN [acc EXCEPT !.sides = sides,
                        !.ok = Append(@, <<m.found[1], i.found[1]>>)]
       ELSE [acc EXCEPT !.sides = sides,
                        !.to_update = Append(@, <<m.found[1], i.found[1]>>)]

\* The body of "for _, row in df.iterrows()", the two sides resolved to m
\* and i.
ClassifyOne(acc, row, m, i) ==
    LET sides == Append(acc.sides, [meeting |-> m, instructor |-> i])
    IN IF m.found = <<>> \/ i.found = <<>>
       THEN [acc EXCEPT !.sides = sides,
                 !.not_found = Append(@, <<row.Group, row.Instructor,
                     IF m.found = <<>> THEN "Meeting not found"
                     ELSE "Instructor not found">>)]
       ELSE IF m.found[1].host_id = i.found[1].id
       THEN [acc EXCEPT !.sides = sides,
                        !.ok = Append(@, <<m.found[1], i.found[1]>>)]
       ELSE [acc EXCEPT !.sides = sides,
                        !.to_update = Append(@, <<m.found[1], i.found[1]>>)]

\* classify_rows: every result the scorer allows.
RECURSIVE classify_rows(_, _, _, _, _, _)
classify_rows(df, users, meetings, u_norm, m_norm, acc) ==
    IF df = <<>> THEN {acc}
    ELSE UNION {classify_rows(Tail(df), users, meetings, u_norm, m_norm,
                              ClassifyOne(acc, Head(df), m, i)) :
                  m \in Resolve(Head(df).Group, meetings, m_norm),
                  i \in Resolve(Head(df).Instructor, users, u_norm)}

ClassifyRows ==
    /\ classified.op = "none"
    /\ \E r \in classify_rows(classified.df,
                              ByCanonical(classified.users),
                              ByCanonical(classified.meetings),
                              users_norm(classified.users),
                              meetings_norm(classified.meetings),
                              classified) :
          classified' = [r EXCEPT !.op = "classify"]
    /\ UNCHANGED <<scheduleVars, authVars, textVars, assignVars, syncVars,
                 loginVars>>

\* fuzzy_find called on a name and the normalized map of the cached
\* meetings or users.
CallFuzzyFind ==
    /\ classified.op = "none"
    /\ \E raw \in RowNames,
          choices \in {meetings_norm(classified.meetings),
                       users_norm(classified.users)} :
          \E sc \in Scorers(choices) :
             \E r \in fuzzy_find(raw, choices, sc) :
                classified' = [classified EXCEPT !.op = "fuzzy_find",
                    !.call = <<[raw |-> raw, choices |-> choices,
                                scored |-> r.scored, scores |-> r.scores,
                                value |-> r.value]>>]
    /\ UNCHANGED <<scheduleVars, authVars, textVars, assignVars, syncVars,
                 loginVars>>

InitClassify ==
    /\ ScheduleIdle
    /\ text = NoText
    /\ AssignIdle
    /\ SyncIdle
    /\ \E users \in Caches(ZoomUsers), meetings \in Caches(ZoomMeetings),
          df \in DataFrames :
          classified = [NoClassified EXCEPT !.users = users,
                                            !.meetings = meetings,
                                            !.df = df]

NextClassify == ClassifyRows \/ CallFuzzyFind

SpecClassify == InitClassify /\ [][NextClassify]_vars

----------------------------------------------------------------------------
(* services/zoom_assignment_service.py: process_assignments *)

\* How the call of update_meeting_host of one task can end: a 2xx response;
\* another response; a timeout or network error of client.patch, caught in
\* update_meeting_host; an exception raised before the request is sent
\* (get_http_client), caught in sem_update.
Outcomes == {"2xx", "non_2xx", "timeout", "exception"}

\* The tasks asyncio.gather has made, one for each pair of to_update.
Tasks == DOMAIN batch.task

InFlight == {i \in Tasks : batch.task[i] = "in_flight"}

HistoryEntry(pair, status) ==
    [meeting_id |-> pair.meeting.id,
     previous_host_id |-> pair.meeting.host_id,
     new_host_id |-> pair.instructor.id,
     status |-> status]

\* The tasks of asyncio.gather made although get_access_token has failed.
process_assignments_TokenIgnored ==
    /\ batch.pc = "idle"
    /\ IF batch.to_update = <<>>
       THEN batch' = [batch EXCEPT !.pc = "returned",
                         !.final_stats = <<[success |-> 0, errors |-> 0]>>]
       ELSE \E token \in {"ok", "raises"} :
               batch' = [batch EXCEPT !.pc = "gather", !.token = token,
                            !.sem = MAX_WORKERS,
                            !.task = [i \in DOMAIN batch.to_update |->
                                        "pending"],
                            !.result = [i \in DOMAIN batch.to_update |->
                                          "none"]]
    /\ UNCHANGED <<zoom_api, zoom_db>>

\* process_assignments up to asyncio.gather: the early return for an empty
\* to_update, get_access_token, which returns a token or raises, the
\* semaphore and one task per pair.
process_assignments ==
    /\ batch.pc = "idle"
    /\ IF batch.to_update = <<>>
       THEN batch' = [batch EXCEPT !.pc = "returned",
                         !.final_stats = <<[success |-> 0, errors |-> 0]>>]
       ELSE \E token \in {"ok", "raises"} :
               IF token = "raises"
               THEN batch' = [batch EXCEPT !.pc = "raised", !.token = token]
               ELSE batch' = [batch EXCEPT !.pc = "gather", !.token = token,
                                 !.sem = MAX_WORKERS,
                                 !.task = [i \in DOMAIN batch.to_update |->
                                             "pending"],
                                 !.result = [i \in DOMAIN batch.to_update |->
                                               "none"]]
    /\ UNCHANGED <<zoom_api, zoom_db>>

\* "async with sem" entered without a look at the semaphore.
Enter_NoSemaphore(i) ==
    /\ batch' = [batch EXCEPT !.task[i] = "in_flight"]
    /\ zoom_api' = [zoom_api EXCEPT !.calls[i] = @ + 1]
    /\ UNCHANGED zoom_db

\* "async with sem" entered: the semaphore is taken and update_meeting_host
\* is called, or the task waits for the semaphore.
Enter(i) ==
    IF batch.sem > 0
    THEN /\ batch' = [batch EXCEPT !.task[i] = "in_flight", !.sem = @ - 1]
         /\ zoom_api' = [zoom_api EXCEPT !.calls[i] = @ + 1]
         /\ UNCHANGED zoom_db
    ELSE /\ batch' = [batch EXCEPT !.task[i] = "waiting"]
         /\ UNCHANGED <<zoom_api, zoom_db>>

\* A task of gather runs up to "async with sem".
TaskStart ==
    /\ batch.pc = "gather"
    /\ \E i \in Tasks : batch.task[i] = "pending" /\ Enter(i)

\* A task that waited gets the semaphore.
TaskAcquire ==
    /\ batch.pc = "gather"
    /\ batch.sem > 0
    /\ \E i \in Tasks : batch.task[i] = "waiting" /\ Enter(i)

\* client.patch of task i: the external system, or the network, decides how
\* the call ends; with a 2xx the meeting has its new host from then on. The
\* task learns of it when the event loop resumes it, which need not be in
\* the order in which the external system answered.
patch(i, outcome) ==
    LET pair == batch.to_update[i]
    IN /\ zoom_api' = [zoom_api EXCEPT
             !.answer[i] = outcome,
             !.host[pair.meeting.id] =
                IF outcome = "2xx" THEN pair.instructor.id ELSE @]
       /\ UNCHANGED <<batch, zoom_db>>

\* The call of a task in flight ends.
CallEnds ==
    /\ batch.pc = "gather"
    /\ \E i \in InFlight, outcome \in Outcomes :
          zoom_api.answer[i] = "none" /\ patch(i, outcome)

\* A failure of one task that ends the batch.
Complete_FailFast(i, outcome) ==
    LET pair == batch.to_update[i]
    IN IF outcome = "2xx"
       THEN /\ batch' = [batch EXCEPT !.task[i] = "done", !.result[i] = outcome,
                  !.sem = @ + 1,
                  !.success_count = @ + 1,
                  !.cache_updates = Append(@,
                      [meeting_id |-> pair.meeting.id,
                       new_host_id |-> pair.instructor.id]),
                  !.history_logs = Append(@, HistoryEntry(pair, "SUCCESS"))]
            /\ UNCHANGED <<zoom_api, zoom_db>>
       ELSE /\ batch' = [batch EXCEPT !.pc = "raised"]
            /\ UNCHANGED <<zoom_api, zoom_db>>

\* The cache and the history written by the task itself.
Complete_WriteThrough(i, outcome) ==
    LET pair == batch.to_update[i]
        ok == outcome = "2xx"
        entry == HistoryEntry(pair, IF ok THEN "SUCCESS" ELSE "ERROR")
    IN /\ UNCHANGED zoom_api
       /\ zoom_db' = [zoom_db EXCEPT
             !.host_id[pair.meeting.id] =
                IF ok THEN pair.instructor.id ELSE @,
             !.history = Append(@, entry)]
       /\ batch' = [batch EXCEPT !.task[i] = "done", !.result[i] = outcome,
                  !.sem = @ + 1,
             !.success_count = IF ok THEN @ + 1 ELSE @,
             !.error_count = IF ok THEN @ ELSE @ + 1]

\* A history entry kept only for the updates that succeeded.
Complete_LogSuccessOnly(i, outcome) ==
    LET pair == batch.to_update[i]
    IN IF outcome = "2xx"
       THEN /\ batch' = [batch EXCEPT !.task[i] = "done", !.result[i] = outcome,
                  !.sem = @ + 1,
                  !.success_count = @ + 1,
                  !.cache_updates = Append(@,
                      [meeting_id |-> pair.meeting.id,
                       new_host_id |-> pair.instructor.id]),
                  !.history_logs = Append(@, HistoryEntry(pair, "SUCCESS"))]
            /\ UNCHANGED <<zoom_api, zoom_db>>
       ELSE /\ batch' = [batch EXCEPT !.task[i] = "done", !.result[i] = outcome,
                  !.sem = @ + 1,
                  !.error_count = @ + 1]
            /\ UNCHANGED <<zoom_api, zoom_db>>

\* The rest of sem_update for task i once its call of update_meeting_host
\* has returned with outcome: the cache update and the history entry are
\* buffered, the counters updated and the semaphore released.
Complete(i, outcome) ==
    LET pair == batch.to_update[i]
    IN IF outcome = "2xx"
       THEN /\ batch' = [batch EXCEPT !.task[i] = "done", !.result[i] = outcome,
                  !.sem = @ + 1,
                  !.success_count = @ + 1,
                  !.cache_updates = Append(@,
                      [meeting_id |-> pair.meeting.id,
                       new_host_id |-> pair.instructor.id]),
                  !.history_logs = Append(@, HistoryEntry(pair, "SUCCESS"))]
            /\ UNCHANGED <<zoom_api, zoom_db>>
       ELSE /\ batch' = [batch EXCEPT !.task[i] = "done", !.result[i] = outcome,
                  !.sem = @ + 1,
                  !.error_count = @ + 1,
                  !.history_logs = Append(@, HistoryEntry(pair, "ERROR"))]
            /\ UNCHANGED <<zoom_api, zoom_db>>

TaskFinish ==
    /\ batch.pc = "gather"
    /\ \E i \in InFlight :
          /\ zoom_api.answer[i] # "none"
          /\ Complete(i, zoom_api.answer[i])

\* The cache rows after the cache_updates, applied in list order.
RECURSIVE ApplyCacheUpdates(_, _)
ApplyCacheUpdates(host_id, cache_updates) ==
    IF cache_updates = <<>> THEN host_id
    ELSE LET cu == Head(cache_updates)
         IN ApplyCacheUpdates(
               IF cu.meeting_id \in DOMAIN host_id
               THEN [host_id EXCEPT ![cu.meeting_id] = cu.new_host_id]
               ELSE host_id,
               Tail(cache_updates))

\* A failed commit that leaves the cache updates behind.
BatchWrite_NoRollback(outcome) ==
    [host_id |-> ApplyCacheUpdates(zoom_db.host_id, batch.cache_updates),
     history |-> IF outcome = "committed"
                 THEN zoom_db.history \o batch.history_logs
                 ELSE zoom_db.history]

\* The batched write: the cache updates and the history entries in one
\* transaction, committed or, when the commit raises, rolled back.
BatchWrite(outcome) ==
    IF outcome = "committed"
    THEN [host_id |-> ApplyCacheUpdates(zoom_db.host_id, batch.cache_updates),
          history |-> zoom_db.history \o batch.history_logs]
    ELSE zoom_db

\* process_assignments after asyncio.gather has returned: the batched
\* commit and the return of final_stats.
Gathered ==
    /\ batch.pc = "gather"
    /\ \A i \in Tasks : batch.task[i] = "done"
    /\ \E outcome \in IF batch.history_logs # <<>> \/ batch.cache_updates # <<>>
                     THEN {"committed", "rolled_back"} ELSE {"none"} :
          /\ zoom_db' = BatchWrite(outcome)
          /\ batch' = [batch EXCEPT !.pc = "returned", !.commit = outcome,
                !.final_stats = <<[success |-> batch.success_count,
                                   errors |-> batch.error_count]>>]
    /\ UNCHANGED zoom_api

\* What process_assignments leaves alone.
otherVars ==
    <<scheduleVars, authVars, textVars, classifyVars, syncVars, loginVars>>

ProcessAssignments ==
    process_assignments /\ UNCHANGED otherVars
StartTask ==
    TaskStart /\ UNCHANGED otherVars
AcquireTask ==
    TaskAcquire /\ UNCHANGED otherVars
EndCall ==
    CallEnds /\ UNCHANGED otherVars
FinishTask ==
    TaskFinish /\ UNCHANGED otherVars
CommitBatch ==
    Gathered /\ UNCHANGED otherVars

InitAssign ==
    /\ ScheduleIdle
    /\ text = NoText
    /\ classified = NoClassified
    /\ SyncIdle
    /\ \E to_update \in SeqsUpTo(Pairs, MaxTasks) :
          /\ batch = [NoBatch EXCEPT !.to_update = to_update]
          /\ zoom_api = ApiBefore(to_update)
          /\ zoom_db = DbBefore

NextAssign ==
    \/ ProcessAssignments
    \/ StartTask
    \/ AcquireTask
    \/ EndCall
    \/ FinishTask
    \/ CommitBatch

SpecAssign == InitAssign /\ [][NextAssign]_vars

\* The event loop does not stop while a step of the batch can be taken:
\* a task that can run is run, every call of update_meeting_host ends (the
\* client has a timeout), and the coroutine goes on once gather returns.
SpecAssignFair == SpecAssign /\ WF_vars(NextAssign)

----------------------------------------------------------------------------
(* services/zoom_sync_service.py: sync_data_from_zoom;
   repositories/zoom_repository.py: the cache tables *)

\* The meetings of a user that the external system holds.
MeetingsOf(uid) ==
    UNION {Pages(uid)[k] : k \in DOMAIN Pages(uid)} \cap sync.zoom_meetings

\* How fetch_meetings_for_user can end: every page read; a 404 on page
\* `page`, which ends the loop with the pages read so far; another error,
\* raised out of the function.
FetchOutcomes(uid) ==
    {[kind |-> "ok", page |-> 0], [kind |-> "error", page |-> 0]}
       \cup {[kind |-> "404", page |-> k] : k \in DOMAIN Pages(uid)}

\* The meetings fetch_meetings_for_user returns; none when it raises.
fetch_meetings_for_user(uid, outcome) ==
    IF outcome.kind = "ok" THEN MeetingsOf(uid)
    ELSE IF outcome.kind = "404"
    THEN UNION {Pages(uid)[k] : k \in 1..(outcome.page - 1)}
            \cap sync.zoom_meetings
    ELSE {}

\* list_all_meetings: the results of the tasks that returned a list, the
\* exceptions of the others being logged and dropped.
list_all_meetings(user_ids, fetch) ==
    UNION {fetch_meetings_for_user(uid, fetch[uid]) : uid \in user_ids}

\* sync_data_from_zoom up to the first write: the check of last_sync,
\* get_access_token, list_all_users and list_all_meetings.
sync_data_from_zoom ==
    /\ sync.pc = "idle"
    /\ \E start \in {"skipped", "raises", "fetch"} :
          IF start = "skipped" THEN sync' = [sync EXCEPT !.pc = "skipped"]
          ELSE IF start = "raises" THEN sync' = [sync EXCEPT !.pc = "raised"]
          ELSE \E fetch \in {f \in [sync.zoom_users ->
                                      UNION {FetchOutcomes(uid) :
                                               uid \in ZoomUserIds}] :
                               \A uid \in DOMAIN f :
                                  f[uid] \in FetchOutcomes(uid)} :
                  sync' = [sync EXCEPT
                     !.pc = "fetched",
                     !.fetch = fetch,
                     !.fresh_user_ids = sync.zoom_users,
                     !.fresh_meeting_ids =
                        list_all_meetings(sync.zoom_users, fetch)]
    /\ UNCHANGED <<cache, load>>

\* A commit on the cache tables.
Commit(users, meetings) ==
    cache' = [users |-> users, meetings |-> meetings,
              commits |-> cache.commits + 1,
              log |-> Append(cache.log,
                             [users |-> users, meetings |-> meetings])]

bulk_upsert_users ==
    /\ sync.pc = "fetched"
    /\ sync' = [sync EXCEPT !.pc = "users_upserted"]
    /\ IF sync.fresh_user_ids = {} THEN UNCHANGED cache
       ELSE Commit(cache.users \cup sync.fresh_user_ids, cache.meetings)
    /\ UNCHANGED load

bulk_upsert_meetings ==
    /\ sync.pc = "users_upserted"
    /\ sync' = [sync EXCEPT !.pc = "meetings_upserted"]
    /\ IF sync.fresh_meeting_ids = {} THEN UNCHANGED cache
       ELSE Commit(cache.users, cache.meetings \cup sync.fresh_meeting_ids)
    /\ UNCHANGED load

prune_stale_users ==
    /\ sync.pc = "meetings_upserted"
    /\ sync' = [sync EXCEPT !.pc = "users_pruned"]
    /\ IF sync.fresh_user_ids = {} THEN UNCHANGED cache
       ELSE Commit(cache.users \cap sync.fresh_user_ids, cache.meetings)
    /\ UNCHANGED load

\* prune_stale_meetings, and set_config_value of last_sync after which
\* sync_data_from_zoom returns its counts.
prune_stale_meetings ==
    /\ sync.pc = "users_pruned"
    /\ sync' = [sync EXCEPT !.pc = "done"]
    /\ IF sync.fresh_meeting_ids = {} THEN UNCHANGED cache
       ELSE Commit(cache.users, cache.meetings \cap sync.fresh_meeting_ids)
    /\ UNCHANGED load

(* services/zoom_assignment_service.py: load_cache_from_db *)

\* get_all_users_as_dict: the first SELECT of a classification run.
get_all_users_as_dict ==
    /\ load.pc = "idle"
    /\ load' = [load EXCEPT !.pc = "users_read", !.users = cache.users,
                            !.commits_at_users = cache.commits]
    /\ UNCHANGED <<cache, sync>>

\* get_all_meetings_as_dict: the second SELECT, which reads what is
\* committed by then.
get_all_meetings_as_dict ==
    /\ load.pc = "users_read"
    /\ load' = [load EXCEPT !.pc = "loaded", !.meetings = cache.meetings,
                            !.commits_at_meetings = cache.commits]
    /\ UNCHANGED <<cache, sync>>

\* What the sync and the load leave alone.
syncOthers ==
    <<scheduleVars, authVars, textVars, classifyVars, assignVars, loginVars>>

SyncFetch == sync_data_from_zoom /\ UNCHANGED syncOthers
UpsertUsers == bulk_upsert_users /\ UNCHANGED syncOthers
UpsertMeetings == bulk_upsert_meetings /\ UNCHANGED syncOthers
PruneUsers == prune_stale_users /\ UNCHANGED syncOthers
PruneMeetings == prune_stale_meetings /\ UNCHANGED syncOthers
LoadUsers == get_all_users_as_dict /\ UNCHANGED syncOthers
LoadMeetings == get_all_meetings_as_dict /\ UNCHANGED syncOthers

\* Any cache left by earlier cycles and any external system: some of the
\* users and some of their meetings.
InitSync ==
    /\ ScheduleIdle
    /\ text = NoText
    /\ classified = NoClassified
    /\ AssignIdle
    /\ load = NoLoad
    /\ \E users \in SUBSET ZoomUserIds, meetings \in SUBSET AllMeetingIds :
          cache = CacheOf(users, meetings)
    /\ \E zoom_users \in SUBSET ZoomUserIds,
          zoom_meetings \in SUBSET AllMeetingIds :
          /\ \A m \in zoom_meetings :
                \E uid \in zoom_users :
                   \E k \in DOMAIN Pages(uid) : m \in Pages(uid)[k]
          /\ sync = [pc |-> "idle", zoom_users |-> zoom_users,
                     zoom_meetings |-> zoom_meetings, fetch |-> <<>>,
                     fresh_user_ids |-> {}, fresh_meeting_ids |-> {},
                     before |-> cache]

NextSync ==
    \/ SyncFetch
    \/ UpsertUsers
    \/ UpsertMeetings
    \/ PruneUsers
    \/ PruneMeetings
    \/ LoadUsers
    \/ LoadMeetings

SpecSync == InitSync /\ [][NextSync]_vars

----------------------------------------------------------------------------
(* Vocabulary of the properties *)

KeyAt(rows, i) == _get_business_key(rows[i].data)

ActivePos(rows) == {i \in DOMAIN rows : rows[i].status = "active"}
DeletedPos(rows) == {i \in DOMAIN rows : rows[i].status = "deleted"}

\* No two active rows have equal business keys.
ActiveKeysDistinct(rows) ==
    \A i, j \in ActivePos(rows) : i # j => KeyAt(rows, i) # KeyAt(rows, j)

\* No two rows, whatever their status, have equal business keys.
AllKeysDistinct(rows) ==
    \A i, j \in DOMAIN rows : i # j => KeyAt(rows, i) # KeyAt(rows, j)

\* Every row of before is in after at the same position with the same id
\* and data; rows are only added at the end.
KeepsRows(before, after) ==
    /\ Len(after) >= Len(before)
    /\ \A i \in DOMAIN before :
          /\ after[i].id = before[i].id
          /\ after[i].data = before[i].data
          /\ after[i].status \in {"active", "deleted"}

\* A step that is the call op.
Does(op) == last'.op = op /\ tick' # tick

\* The schedules of the latest merge call.
LastBatch == last.files[1].schedules

----------------------------------------------------------------------------
(* C1: from the empty collection, after any sequence of merge, delete and
   restore calls, no two active rows of all_rows have equal business keys. *)
C1_OneActiveRowPerKey == ActiveKeysDistinct(all_rows)

\* Rows were merged from a batch that repeats a key, one was deleted and
\* the restore brought it back.
C1_Witness ==
    /\ last.op = "restore" /\ last.count >= 1
    /\ Len(all_rows) >= 2 /\ DeletedPos(all_rows) = {}

----------------------------------------------------------------------------
(* C2: merge is idempotent: merging the batch that was just merged leaves
   all_rows as it is (same length, ids, order and statuses) and creates no
   row. *)
C2_MergeIdempotent ==
    [][(/\ last.op = "merge"
        /\ Does("merge")
        /\ last'.files = last.files)
       => /\ all_rows' = all_rows
          /\ last'.count = 0
          /\ nextId' = nextId]_vars

\* A batch that holds rows was merged twice in a row.
C2_Witness ==
    /\ last.op = "merge" /\ last.after = "same"
    /\ LastBatch # <<>>
    /\ \A n \in DOMAIN LastBatch :
          \E i \in ActivePos(all_rows) : all_rows[i].data = LastBatch[n]

----------------------------------------------------------------------------
(* C3: merge reactivates and never duplicates: when all_rows holds a
   deleted row with key K and the batch holds a row with key K, the result
   holds exactly one row with key K, it has the id the deleted row had and
   its status is active. *)
C3_MergeReactivates ==
    [][Does("merge") =>
         \A i \in DeletedPos(all_rows) :
            (\E n \in DOMAIN last'.files[1].schedules :
                _get_business_key(last'.files[1].schedules[n])
                    = KeyAt(all_rows, i))
            => /\ \A j \in DOMAIN all_rows' :
                     KeyAt(all_rows', j) = KeyAt(all_rows, i) => j = i
               /\ all_rows'[i].id = all_rows[i].id
               /\ all_rows'[i].status = "active"]_vars

\* A merge has just reactivated a row: the row was deleted by the call
\* before, the batch holds its key and the merge created nothing.
C3_Witness ==
    /\ last.op = "merge" /\ last.count = 0
    /\ last.after = "delete"
    /\ \E i \in ActivePos(all_rows) :
          /\ \E n \in DOMAIN LastBatch :
                _get_business_key(LastBatch[n]) = KeyAt(all_rows, i)
          /\ DeletedPos(all_rows) = {}
    /\ Len(all_rows) >= 2

----------------------------------------------------------------------------
(* C4: for every collection whose active rows have pairwise distinct keys
   (deleted rows may repeat keys), after restore_deleted_rows no two active
   rows have equal keys. *)
C4_RestoreKeepsActiveKeysDistinct ==
    [][(Does("restore") /\ ActiveKeysDistinct(all_rows))
       => ActiveKeysDistinct(all_rows')]_vars

\* A restore has met two deleted rows of one key that no active row had:
\* it restored one of them and left the other deleted.
C4_Witness ==
    /\ last.op = "restore" /\ last.count >= 1
    /\ \E i \in ActivePos(all_rows), j \in DeletedPos(all_rows) :
          /\ i < j
          /\ KeyAt(all_rows, i) = KeyAt(all_rows, j)
          /\ last.count = Cardinality(ActivePos(all_rows))

----------------------------------------------------------------------------
\* Row i is flipped from deleted to active by the step.
Restored(i) ==
    all_rows[i].status = "deleted" /\ all_rows'[i].status = "active"

(* C5: restore_deleted_rows flips a deleted row to active if and only if
   no row that is active at that point of the scan (active before the
   call, or restored earlier in list order by the call) has its key; every
   other row keeps its status, and restored_count is the number of rows
   flipped. *)
C5_RestoreExactly ==
    [][Does("restore") =>
         /\ DOMAIN all_rows' = DOMAIN all_rows
         /\ \A i \in DOMAIN all_rows :
               /\ all_rows'[i].id = all_rows[i].id
               /\ all_rows'[i].data = all_rows[i].data
               /\ all_rows[i].status = "active"
                     => all_rows'[i].status = "active"
               /\ all_rows[i].status = "deleted"
                     => /\ all_rows'[i].status \in {"active", "deleted"}
                        /\ Restored(i) <=>
                             ~ \E j \in DOMAIN all_rows :
                                  /\ KeyAt(all_rows, j) = KeyAt(all_rows, i)
                                  /\ \/ all_rows[j].status = "active"
                                     \/ j < i /\ Restored(j)
         /\ last'.count = Cardinality({i \in DOMAIN all_rows : Restored(i)})
      ]_vars

\* A restore has met a deleted row whose key an active row further down
\* the list has: it left the row deleted and restored nothing.
C5_Witness ==
    /\ last.op = "restore" /\ last.count = 0
    /\ \E j \in DeletedPos(all_rows), i \in ActivePos(all_rows) :
          j < i /\ KeyAt(all_rows, i) = KeyAt(all_rows, j)

----------------------------------------------------------------------------
(* C6: delete_rows_by_id flips to deleted exactly the rows whose id is in
   the given set and whose status is active; deleted_count is the number
   of rows flipped; a row that is already deleted stays as it is and is
   not counted; the length and the order of all_rows do not change. *)
C6_DeleteExactly ==
    [][(Does("delete") /\ last'.status # 400) =>
         /\ Len(all_rows') = Len(all_rows)
         /\ \A i \in DOMAIN all_rows :
               /\ all_rows'[i].id = all_rows[i].id
               /\ all_rows'[i].data = all_rows[i].data
               /\ all_rows'[i].status = "deleted"
                     <=> \/ all_rows[i].status = "deleted"
                         \/ all_rows[i].id \in last'.ids
               /\ all_rows'[i].status = "active"
                     <=> /\ all_rows[i].status = "active"
                         /\ all_rows[i].id \notin last'.ids
         /\ last'.count = Cardinality(DeletedPos(all_rows'))
                            - Cardinality(DeletedPos(all_rows))
      ]_vars

\* A delete was given the ids of two rows of which one was deleted
\* already: it counted one.
C6_Witness ==
    /\ last.op = "delete" /\ last.count = 1
    /\ Cardinality({i \in DeletedPos(all_rows) :
                      all_rows[i].id \in last.ids}) = 2

----------------------------------------------------------------------------
\* The rows of the batch of the step that equal no row of all_rows in
\* all ten fields.
NewData ==
    {d \in SetOf(last'.files[1].schedules) :
        \A i \in DOMAIN all_rows : all_rows[i].data # d}

(* C7: merge creates exactly one new active row for each distinct key of
   the batch that no row of current_rows has (a key repeated in the batch
   creates one row), two rows having the same key if and only if their ten
   fields are equal: rows that differ only in instructor, or only in
   units, are kept as distinct active rows. *)
C7_MergeCreatesOnePerKey ==
    [][Does("merge") =>
         /\ Len(all_rows') = Len(all_rows) + Cardinality(NewData)
         /\ last'.count = Cardinality(NewData)
         /\ \A d \in NewData :
               \E p \in (Len(all_rows) + 1)..Len(all_rows') :
                  /\ all_rows'[p].data = d
                  /\ all_rows'[p].status = "active"
                  /\ \A q \in DOMAIN all_rows' :
                        all_rows'[q].data = d => q = p
         /\ \A p, q \in (Len(all_rows) + 1)..Len(all_rows') :
               p # q => all_rows'[p].id # all_rows'[q].id
      ]_vars

\* One merge has created two rows, and all_rows holds active rows that
\* differ only in instructor and active rows that differ only in units.
C7_Witness ==
    /\ last.op = "merge" /\ last.count = 2
    /\ \E i, j \in ActivePos(all_rows) :
          /\ all_rows[i].data.instructor = "Alice"
          /\ all_rows[j].data
                = [all_rows[i].data EXCEPT !.instructor = "Bob"]
    /\ \E i, j \in ActivePos(all_rows) :
          /\ all_rows[i].data.units = 1
          /\ all_rows[j].data = [all_rows[i].data EXCEPT !.units = 2]

----------------------------------------------------------------------------
(* C8: every request except the full clear keeps every row of all_rows in
   all_rows, at its position, with its id and its data; only the status of
   a row may change, and new rows are added after the existing ones. *)
C8_RowsStayInPlace ==
    [][(tick' # tick /\ last'.op # "clear")
       => KeepsRows(all_rows, all_rows')]_vars

\* A row was uploaded and deleted, and a later upload has added a row
\* after it.
C8_Witness ==
    /\ last.op = "upload" /\ last.count = 1
    /\ Len(all_rows) = 2
    /\ all_rows[1].status = "deleted"

----------------------------------------------------------------------------
(* C9: delete followed by restore is a round trip: when all rows are
   active with pairwise distinct keys, delete_rows_by_id followed by
   restore_deleted_rows makes every row active again, and restored_count
   is the deleted_count of the delete.  (In the state between the two
   calls, all rows were active before the delete exactly when the deleted
   rows are as many as the delete counted.) *)
C9_DeleteRestoreRoundTrip ==
    [][(/\ last.op = "delete"
        /\ Does("restore")
        /\ AllKeysDistinct(all_rows)
        /\ Cardinality(DeletedPos(all_rows)) = last.count)
       => /\ Len(all_rows') = Len(all_rows)
          /\ DeletedPos(all_rows') = {}
          /\ last'.count = last.count]_vars

\* A delete has deleted rows and the restore that followed has restored
\* as many, leaving no deleted row.
C9_Witness ==
    /\ last.op = "restore" /\ last.after = "delete"
    /\ last.count >= 1
    /\ DeletedPos(all_rows) = {}
    /\ AllKeysDistinct(all_rows)

----------------------------------------------------------------------------
NoDuplicates(q) == \A i, j \in DOMAIN q : i # j => q[i] # q[j]

\* The files of a request that process_single_file parses.
OkFiles(files) == {i \in DOMAIN files : files[i].outcome = "ok"}

OneActiveRowPerParsedKey(files, rows) ==
    \A i \in OkFiles(files) :
       \A n \in DOMAIN files[i].schedules :
          Cardinality({p \in ActivePos(rows) :
              KeyAt(rows, p) = _get_business_key(files[i].schedules[n])}) = 1

\* The step uploads again what the request before it uploaded.
SameFilesAgain ==
    /\ last.op = "upload"
    /\ Does("upload")
    /\ Content(last'.files) = Content(last.files)

(* C10: uploading a file and then the identical file again, with no
   request in between, leaves all_rows unchanged by the second upload, with
   one active row for every parsed key, whether the file has the same name
   or another one; processed_files never lists a filename twice. *)
(* C10 as claimed. *)
C10_Original ==
    [][/\ NoDuplicates(processed_files')
       /\ SameFilesAgain
             => /\ all_rows' = all_rows
                /\ OneActiveRowPerParsedKey(last'.files, all_rows')]_vars

(* C10 as amended: the same, provided the first of the two uploads was not
   skipped because its filename was already in processed_files. *)
C10_SecondUploadNoOp ==
    [][/\ NoDuplicates(processed_files')
       /\ (SameFilesAgain
           /\ Len(last.newly) = Cardinality(OkFiles(last.files)))
             => /\ all_rows' = all_rows
                /\ OneActiveRowPerParsedKey(last'.files, all_rows')]_vars

\* The file that the upload before had merged was uploaded again under
\* another name and merged again (both names are in processed_files): the
\* merge created nothing.
C10_Witness ==
    /\ last.op = "upload" /\ last.after = "same"
    /\ last.files[1].schedules # <<>>
    /\ Len(last.newly) = 1 /\ last.count = 0
    /\ Len(processed_files) = 2

----------------------------------------------------------------------------
\* The session's ScheduleCollection.
SessionSchedule ==
    [all_rows |-> all_rows, processed_files |-> processed_files]

\* The persisted ScheduleCollection as get_by_user_id's callers read it:
\* the stored row, or the empty collection when there is none.
PersistedSchedule ==
    IF db_schedule = <<>> THEN get_empty_schedule_data ELSE db_schedule[1]

\* The step is a request that assigns the session's schedule_data: an
\* upload, a delete given ids, a restore of a collection that has rows, the
\* full clear, or the processed_files reset of upload-new.
MutatingRequest ==
    /\ tick' # tick
    /\ \/ last'.op \in {"upload", "clear", "upload_new"}
       \/ last'.op = "delete" /\ last'.status # 400
       \/ last'.op = "restore" /\ all_rows # <<>>

(* C11: for an authenticated owner, after every request that mutates the
   schedule collection (upload, delete-rows, restore-rows, delete-data and
   the processed_files reset of upload-new) the persisted ScheduleCollection
   equals the session's.  Stated for the requests whose commit did not
   fail. *)
C11_PersistedEqualsSession ==
    [][(is_authenticated /\ MutatingRequest /\ last'.save # "failed")
       => PersistedSchedule' = SessionSchedule']_vars

----------------------------------------------------------------------------
(* C15: strict normalization is idempotent: canonical(canonical(s)) =
   canonical(s) for every string s, accented stopwords and strings whose
   tokens concatenate into a stopword included. *)
C15_CanonicalIdempotent ==
    text.key_again # Unset => text.key_again = text.key

----------------------------------------------------------------------------
(* C16: two inputs that differ only by whitespace, punctuation, accents,
   letter case or stopword content have the same strict-canonical key. *)
C16_VariationsShareKey ==
    text.key # Unset => text.key_other = text.key

----------------------------------------------------------------------------
\* The rows of the classification whose sides satisfy P.
RowsWhere(P(_)) ==
    {n \in DOMAIN classified.sides : P(classified.sides[n])}

MeetingMissing(side) == side.meeting.found = <<>>
InstructorMissing(side) ==
    side.meeting.found # <<>> /\ side.instructor.found = <<>>
BothSame(side) ==
    /\ side.meeting.found # <<>> /\ side.instructor.found # <<>>
    /\ side.meeting.found[1].host_id = side.instructor.found[1].id
BothDiffer(side) ==
    /\ side.meeting.found # <<>> /\ side.instructor.found # <<>>
    /\ side.meeting.found[1].host_id # side.instructor.found[1].id

\* The entries of a list for the rows ns, in row order.
EntriesOf(ns, Entry(_)) ==
    LET idx == SelectSeq([n \in 1..Len(classified.df) |-> n],
                         LAMBDA n : n \in ns)
    IN [k \in 1..Len(idx) |-> Entry(idx[k])]

PairOf(n) ==
    <<classified.sides[n].meeting.found[1],
      classified.sides[n].instructor.found[1]>>

MissOf(n) ==
    <<classified.df[n].Group, classified.df[n].Instructor,
      IF MeetingMissing(classified.sides[n]) THEN "Meeting not found"
      ELSE "Instructor not found">>

(* C12: classify_rows places every row in exactly one of the three lists
   (their lengths sum to the number of rows): in not_found with reason
   "Meeting not found" iff the meeting side is unresolved, whatever the
   instructor side; in not_found with reason "Instructor not found" iff
   the meeting is resolved and the instructor is not; in ok iff both are
   resolved and the meeting's host_id is the instructor's id; in to_update
   iff both are resolved and they differ. *)
C12_ClassifyPartitions ==
    classified.op = "classify" =>
       /\ Len(classified.sides) = Len(classified.df)
       /\ Len(classified.to_update) + Len(classified.ok)
             + Len(classified.not_found) = Len(classified.df)
       /\ classified.not_found =
             EntriesOf(RowsWhere(MeetingMissing)
                            \cup RowsWhere(InstructorMissing), MissOf)
       /\ classified.ok = EntriesOf(RowsWhere(BothSame), PairOf)
       /\ classified.to_update = EntriesOf(RowsWhere(BothDiffer), PairOf)

\* A row whose two sides are both unresolved was given the meeting's
\* reason.
C12_Witness ==
    /\ classified.op = "classify"
    /\ \E n \in DOMAIN classified.sides :
          /\ classified.sides[n].meeting.found = <<>>
          /\ classified.sides[n].instructor.found = <<>>
          /\ classified.sides[n].instructor.consulted
          /\ classified.df[n].Instructor # <<>>
    /\ \E e \in SetOf(classified.not_found) : e[3] = "Meeting not found"

----------------------------------------------------------------------------
\* One side of a classified row against the exact cache it was looked up in.
ExactThenFuzzy(side, exact) ==
    /\ side.key \in DOMAIN exact
          => side.found = <<exact[side.key]>> /\ ~side.consulted
    /\ side.consulted <=> side.key \notin DOMAIN exact
    /\ side.found = <<>> => side.key \notin DOMAIN exact /\ side.consulted

(* C13: each side of a row is resolved exact-then-fuzzy: when the
   strict-canonical key of the raw name is a key of the exact cache, the
   side resolves to that entry and fuzzy_find is not consulted for it;
   fuzzy_find is consulted only for a side that missed the exact lookup,
   and a side is unresolved only when both lookups miss. *)
C13_ExactThenFuzzy ==
    classified.op = "classify" =>
       \A n \in DOMAIN classified.sides :
          /\ classified.sides[n].meeting.key
                = canonical(classified.df[n].Group)
          /\ classified.sides[n].instructor.key
                = canonical(classified.df[n].Instructor)
          /\ ExactThenFuzzy(classified.sides[n].meeting,
                            ByCanonical(classified.meetings))
          /\ ExactThenFuzzy(classified.sides[n].instructor,
                            ByCanonical(classified.users))

\* In one row the meeting was resolved by the exact cache without
\* fuzzy_find, and the instructor, missed by the exact cache, by fuzzy_find.
C13_Witness ==
    /\ classified.op = "classify"
    /\ \E n \in DOMAIN classified.sides :
          /\ ~classified.sides[n].meeting.consulted
          /\ classified.sides[n].meeting.found # <<>>
          /\ classified.sides[n].instructor.consulted
          /\ classified.sides[n].instructor.found # <<>>

----------------------------------------------------------------------------
\* The highest score of a call of fuzzy_find that scored.
MaxScore(c) ==
    CHOOSE v \in ScoreValues :
       /\ \E k \in DOMAIN c.scores : c.scores[k] = v
       /\ \A k \in DOMAIN c.scores : c.scores[k] <= v

(* C14: fuzzy_find returns the value of a candidate of maximal score when
   that score is at least the threshold (a score at the threshold is
   accepted, one point below is rejected) and not-found otherwise; with an
   empty raw string or an empty candidate map it returns not-found without
   scoring. *)
C14_FuzzyFindThreshold ==
    \A n \in DOMAIN classified.call :
       LET c == classified.call[n]
       IN IF c.raw = <<>> \/ DOMAIN c.choices = {}
          THEN ~c.scored /\ c.value = <<>>
          ELSE /\ c.scored
               /\ MaxScore(c) >= threshold
                     => \E k \in DOMAIN c.choices :
                           /\ c.scores[k] = MaxScore(c)
                           /\ c.value = <<c.choices[k]>>
               /\ MaxScore(c) < threshold => c.value = <<>>

\* fuzzy_find has returned a candidate that scored exactly the threshold,
\* another candidate having scored one point less.
C14_Witness ==
    /\ classified.op = "fuzzy_find"
    /\ \E n \in DOMAIN classified.call :
          LET c == classified.call[n]
          IN /\ c.scored /\ c.value # <<>>
             /\ MaxScore(c) = threshold
             /\ \E k \in DOMAIN c.scores : c.scores[k] = threshold - 1

----------------------------------------------------------------------------
(* C17: during process_assignments at most MAX_WORKERS calls of
   update_meeting_host are in flight at every moment, for every length of
   to_update and every interleaving of the tasks. *)
C17_AtMostMaxWorkers == Cardinality(InFlight) <= MAX_WORKERS

\* MAX_WORKERS calls are in flight and a further task waits for the
\* semaphore.
C17_Witness ==
    /\ batch.pc = "gather"
    /\ Cardinality(InFlight) = MAX_WORKERS
    /\ \E i \in Tasks : batch.task[i] = "waiting"

----------------------------------------------------------------------------
(* C18: failures are isolated per task: for every to_update and every
   combination of outcomes of the items (2xx, another response, a timeout,
   a raised exception) the call of each item is issued exactly once, no
   failure keeps another item's call from being made, and
   process_assignments in the end returns its stats instead of aborting
   the batch. *)
C18_FailuresIsolated ==
    /\ [](\A i \in DOMAIN zoom_api.calls : zoom_api.calls[i] <= 1)
    /\ [](batch.pc = "returned" =>
             /\ \A i \in DOMAIN zoom_api.calls :
                   batch.to_update # <<>> => zoom_api.calls[i] = 1
             /\ batch.final_stats # <<>>)
    /\ [](batch.pc = "raised" => batch.task = <<>>)
    /\ (batch.pc = "gather" ~> batch.pc = "returned")

\* process_assignments has returned its stats for a batch in which one
\* call timed out, one raised, and a third got a 2xx response.
C18_Witness ==
    /\ batch.pc = "returned"
    /\ batch.final_stats = <<[success |-> 1, errors |-> 2]>>
    /\ \E i, j, k \in Tasks :
          /\ batch.result[i] = "timeout"
          /\ batch.result[j] = "exception"
          /\ batch.result[k] = "2xx"
    /\ \A i \in Tasks : zoom_api.calls[i] = 1

----------------------------------------------------------------------------
(* C19: no write of a cache host_id and no write of a history entry
   reaches the database while a task of the batch is still running: the
   writes are buffered and made in one transaction, committed once, after
   every task has completed. *)
C19_WritesAfterAllTasks ==
    [][zoom_db' # zoom_db =>
          /\ batch.pc = "gather"
          /\ \A i \in Tasks : batch.task[i] = "done"
          /\ zoom_db = DbBefore
          /\ batch'.pc = "returned"
          /\ batch'.commit = "committed"
          /\ zoom_db'.history = zoom_db.history \o batch.history_logs]_vars

\* The batch was committed after a task that failed and a task that
\* succeeded: the history has both entries and a cache row has a new host.
C19_Witness ==
    /\ batch.pc = "returned"
    /\ batch.commit = "committed"
    /\ \E h, k \in DOMAIN zoom_db.history :
          /\ zoom_db.history[h].status = "ERROR"
          /\ zoom_db.history[k].status = "SUCCESS"
    /\ zoom_db.host_id # DbBefore.host_id

----------------------------------------------------------------------------
\* The meetings for which an external update succeeded.
Updated ==
    {batch.cache_updates[k].meeting_id : k \in DOMAIN batch.cache_updates}

(* C20: when the batched commit fails it is rolled back as a whole (no
   cache host_id of the batch and no history entry of the batch is
   persisted), the external updates already made stay applied, and
   process_assignments still returns its success and error counts without
   raising. *)
C20_CommitFailureRollsBack ==
    batch.commit = "rolled_back" =>
       /\ zoom_db = DbBefore
       /\ \A m \in Updated :
             zoom_api.host[m] \in
                {batch.cache_updates[k].new_host_id :
                    k \in {j \in DOMAIN batch.cache_updates :
                              batch.cache_updates[j].meeting_id = m}}
       /\ batch.pc = "returned"
       /\ batch.final_stats = <<[success |-> batch.success_count,
                                 errors |-> batch.error_count]>>
       /\ batch.success_count + batch.error_count = Len(batch.to_update)

\* The commit failed after two external updates had succeeded: the
\* external system has the new hosts and the cache the old ones.
C20_Witness ==
    /\ batch.commit = "rolled_back"
    /\ batch.pc = "returned"
    /\ batch.success_count >= 2
    /\ \A m \in MeetingIds : zoom_api.host[m] # "u0"
    /\ \A m \in MeetingIds : zoom_db.host_id[m] = "u0"
    /\ zoom_db.history = DbBefore.history

----------------------------------------------------------------------------
(* C21: a failure to obtain the access token is fatal to the batch: when
   get_access_token fails for a non-empty to_update, process_assignments
   raises, no call of update_meeting_host is made for any item, and no
   cache row and no history entry is written. *)
C21_TokenFailureIsFatal ==
    batch.token = "raises" =>
       /\ batch.pc = "raised"
       /\ batch.final_stats = <<>>
       /\ batch.task = <<>>
       /\ \A i \in DOMAIN zoom_api.calls : zoom_api.calls[i] = 0
       /\ zoom_api = ApiBefore(batch.to_update)
       /\ zoom_db = DbBefore

\* get_access_token has failed for a to_update of two pairs or more.
C21_Witness ==
    /\ batch.token = "raises"
    /\ batch.pc = "raised"
    /\ Len(batch.to_update) >= 2

----------------------------------------------------------------------------
\* The entries the history has got since the batch began.
NewHistory ==
    SubSeq(zoom_db.history, Len(DbBefore.history) + 1, Len(zoom_db.history))

\* The history entry of the attempt of item i.
EntryOf(i) ==
    HistoryEntry(batch.to_update[i],
                 IF batch.result[i] = "2xx" THEN "SUCCESS" ELSE "ERROR")

\* The new entries are, in some order, one entry for each item.
OneEntryPerItem ==
    /\ Len(NewHistory) = Len(batch.to_update)
    /\ \E f \in [DOMAIN batch.to_update -> DOMAIN batch.to_update] :
          /\ \A i, j \in DOMAIN f : f[i] = f[j] => i = j
          /\ \A i \in DOMAIN f : NewHistory[f[i]] = EntryOf(i)

\* No entry that the history held before the batch was changed or removed.
OldHistoryKept ==
    /\ Len(zoom_db.history) >= Len(DbBefore.history)
    /\ SubSeq(zoom_db.history, 1, Len(DbBefore.history)) = DbBefore.history

(* C22, as stated: after process_assignments returns, the persisted
   history holds exactly one new entry for each item of to_update whose
   update was attempted, successful or failed (status SUCCESS iff the
   external update succeeded), and no existing entry was changed or
   removed. *)
C22_OneEntryPerAttempt ==
    batch.pc = "returned" /\ batch.to_update # <<>> =>
       OneEntryPerItem /\ OldHistoryKept

(* C22, amended: no entry of the history is ever changed or removed; after
   process_assignments returns, the persisted history holds exactly one
   new entry for each item of to_update (status SUCCESS iff the update was
   answered with 2xx) when the batched commit succeeded, and no new entry
   when the commit failed and was rolled back. *)
C22_OneEntryPerAttemptCommitted ==
    /\ OldHistoryKept
    /\ batch.pc = "returned" /\ batch.to_update # <<>> =>
          IF batch.commit = "committed"
          THEN OneEntryPerItem
          ELSE batch.commit = "rolled_back" /\ NewHistory = <<>>
    /\ batch.pc # "returned" => NewHistory = <<>>

\* A batch of three items, one of which failed, was committed: the
\* history has the old entry and three new ones.
C22_Witness ==
    /\ batch.pc = "returned"
    /\ batch.commit = "committed"
    /\ Len(batch.to_update) = 3
    /\ batch.error_count = 1
    /\ Len(zoom_db.history) = Len(DbBefore.history) + 3

----------------------------------------------------------------------------
(* C28: after process_assignments returns with a committed batch, the
   cached host_id of every meeting whose external update succeeded is the
   host the external system ended with, for every interleaving of the
   tasks, also when to_update holds two pairs of one meeting with
   different instructors and both external updates succeed. *)
C28_CacheMatchesExternalHost ==
    batch.pc = "returned" /\ batch.commit = "committed" =>
       \A m \in Updated : zoom_db.host_id[m] = zoom_api.host[m]

----------------------------------------------------------------------------
(* C23: after every sync cycle that completes without being skipped, the
   cached user ids are the user ids fetched in that cycle and the cached
   meeting ids are the meeting ids fetched in that cycle: every cache entry
   absent from the latest fetch has been pruned, also when the fetch
   returned no users or no meetings. *)
C23_CacheEqualsFetch ==
    sync.pc = "done" =>
       /\ cache.users = sync.fresh_user_ids
       /\ cache.meetings = sync.fresh_meeting_ids

----------------------------------------------------------------------------
(* C30: a sync cycle removes a meeting from the cache only if the meeting
   no longer exists in the external system: when the fetch of one user's
   meetings fails (an error dropped by list_all_meetings, or a 404 in the
   middle of the pages) while other fetches succeed, the meetings of that
   user that still exist are not pruned. *)
C30_PrunedOnlyIfGone ==
    sync.pc = "done" =>
       \A m \in sync.before.meetings \ cache.meetings :
          m \notin sync.zoom_meetings

----------------------------------------------------------------------------
(* C24: a classification run works on one snapshot of the cache: the users
   map and the meetings map it loads are those of one state of the cache,
   no commit of a concurrent sync (upsert or prune) between the loading of
   the users and the loading of the meetings having changed it. *)
C24_OneSnapshot ==
    load.pc = "loaded" =>
       \E n \in (load.commits_at_users + 1)..(load.commits_at_meetings + 1) :
          /\ cache.log[n].users = load.users
          /\ cache.log[n].meetings = load.meetings

----------------------------------------------------------------------------
(* C29: state is unchanged on a persistence error: when the save of the
   schedule fails during delete-rows or restore-rows of an authenticated
   user (the response has success=false and status 500), the session's
   schedule collection after the request is the one before the request. *)
C29_UnchangedOnSaveError ==
    [][(/\ tick' # tick
        /\ last'.op \in {"delete", "restore"}
        /\ last'.save = "failed"
        /\ last'.status = 500)
          => /\ all_rows' = all_rows
             /\ processed_files' = processed_files]_vars

----------------------------------------------------------------------------
\* A deleted row of rows has the business key of an active row of rows.
DeletedDuplicate(rows) ==
    \E i \in ActivePos(rows), j \in DeletedPos(rows) :
        KeyAt(rows, i) = KeyAt(rows, j)

(* C27: merge preserves the active-uniqueness invariant in the presence of
   deleted duplicates: for every collection whose active rows have pairwise
   distinct business keys and which holds a deleted row with the key of an
   active row, before or after it in the list, merging any batch yields a
   collection in which no two active rows share a business key. *)
C27_MergeWithDeletedDuplicate ==
    [][(/\ Does("merge")
        /\ ActiveKeysDistinct(all_rows)
        /\ DeletedDuplicate(all_rows))
          => ActiveKeysDistinct(all_rows')]_vars

----------------------------------------------------------------------------
(* C25: login rotates the session: after a successful POST /login the
   session data is stored under a newly generated session id different
   from the pre-login id, the client's cookie carries that new id, and the
   pre-login session key is deleted from the session store. *)
C25_LoginRotatesSession ==
    login.status = "ok"
      => /\ login.new_session_id # login.old_session_id
         /\ login.new_session_id \in redis
         /\ cookie = login.new_session_id
         /\ login.old_session_id \notin redis

(* C26: guest-to-user migration on login: if the guest session holds at
   least one row in all_rows at a successful login, then after the login
   the persisted schedule and the authenticated session's schedule both
   equal the guest's schedule; only when the guest had no rows is the
   stored schedule, or an empty one, loaded instead. *)
C26_GuestDataMigrates ==
    login.status = "ok"
      => IF login.guest_schedule[1].all_rows # <<>>
         THEN /\ PersistedSchedule = login.guest_schedule[1]
              /\ SessionSchedule = login.guest_schedule[1]
         ELSE SessionSchedule =
                  (IF login.stored_schedule = <<>>
                   THEN get_empty_schedule_data
                   ELSE login.stored_schedule[1])

====
